---------------------------- MODULE Spec2Model ----------------------------
(***************************************************************************)
(* Streaming transcription pipeline of src/index.js and src/server1.js.    *)
(*                                                                         *)
(* Both files define transcribeAudio: an ffmpeg command (the PCM Source)   *)
(* delivers byte chunks through 'data' events and finishes with one 'end'  *)
(* or one 'error' event; the handlers slice the accumulated bytes into     *)
(* CHUNK_SIZE units, pass each to model.stt (the engine), and after the    *)
(* awaited promise resolves the whole audio is passed to model.stt again.  *)
(*                                                                         *)
(* Node runs each handler and each continuation to completion, so every    *)
(* handler is one action.  The Source and the engine are external: the     *)
(* Source is modelled by its contract (any number of 'data' events, then   *)
(* one 'end' or one 'error'), the engine as a nondeterministic choice      *)
(* between a transcript with words, a whitespace-only transcript and a     *)
(* thrown error.                                                           *)
(*                                                                         *)
(* The handlers never inspect a byte, so the stream is modelled with the   *)
(* bytes tagged by their position (byte i of the stream is i): any loss,   *)
(* duplication or reordering of bytes shows as a different sequence.       *)
(***************************************************************************)
EXTENDS Integers, Sequences, FiniteSets, TLC

VARIABLES
    variant,         \* which file's transcribeAudio runs: "index" or "server1"
    hasReference,    \* server1.js: referenceText is a non-empty string
    pc,              \* position of the run
    source,          \* history: the Source is "idle", "open", "ended" or "failed"
    delivered,       \* history: the chunks the Source has emitted, in order
    chunks,          \* const chunks = []
    currentBuffer,   \* let currentBuffer = Buffer.alloc(0)
    chunkCount,      \* server1.js: let chunkCount = 0
    sttCalls,        \* history: every call of model.stt, in order
    sink,            \* console.log / transcriptionFile.write, in order
    performanceLog,  \* server1.js: performanceLog.write, in order
    settled,         \* how the promise returned by transcribeAudio settled
    reference,       \* server1.js scorer: the reference text of a call
    hypothesis,      \* server1.js scorer: the hypothesis text of a call
    called,          \* which scorer function was called: "none" before the call
    result           \* what the call returned

pipelineVars == <<variant, hasReference, pc, source, delivered, chunks,
                  currentBuffer, chunkCount, sttCalls, sink, performanceLog,
                  settled>>

scorerVars == <<reference, hypothesis, called, result>>

vars == <<pipelineVars, scorerVars>>

---------------------------------------------------------------------------
(* Bounds and program constants *)

\* The most bytes (model blocks) a Source delivers in one run.
MaxBytes == 9

\* The most characters of a reference and of a hypothesis text.
MaxReferenceLen == 3

MaxHypothesisLen == 3

\* Model blocks per CHUNK_SIZE of index.js: the stream is counted in blocks
\* of CHUNK_SIZE_INDEX / Resolution bytes.
Resolution == 2

CHUNK_SIZE_INDEX == 16000

CHUNK_SIZE_SERVER1 == 32000

Variants == {"index", "server1"}

\* What one call of model.stt does: a transcript with words, a transcript
\* that is empty after trim(), or a thrown error.
Outcomes == {"text", "blank", "throw"}

---------------------------------------------------------------------------
(* Buffers *)

\* Buffer.alloc(0)
EmptyBuffer == << >>

\* Buffer.concat([a, b])
BufferConcat(a, b) == a \o b

\* buf.slice(0, n)
SliceHead(buf, n) == SubSeq(buf, 1, IF n < Len(buf) THEN n ELSE Len(buf))

\* buf.slice(n)
SliceFrom(buf, n) == SubSeq(buf, n + 1, Len(buf))

\* Buffer.concat(list)
RECURSIVE ConcatAll(_)
ConcatAll(list) ==
    IF list = << >> THEN EmptyBuffer
    ELSE BufferConcat(Head(list), ConcatAll(Tail(list)))

\* const CHUNK_SIZE, in model blocks
ChunkSizeOf(v) ==
    ((IF v = "index" THEN CHUNK_SIZE_INDEX ELSE CHUNK_SIZE_SERVER1) * Resolution)
        \div CHUNK_SIZE_INDEX

CHUNK_SIZE == ChunkSizeOf(variant)

\* .audioFrequency(16000): samples per second
AudioFrequency == 16000

\* .audioChannels(1)
AudioChannels == 1

\* .audioCodec("pcm_s16le"): bytes per sample
BytesPerSample == 2

\* The bytes one model block stands for.
BlockBytes == CHUNK_SIZE_INDEX \div Resolution

\* The samples per channel a buffer holds.
SamplesIn(buf) == (Len(buf) * BlockBytes) \div (BytesPerSample * AudioChannels)

---------------------------------------------------------------------------
(* Records *)

\* One line of output: its kind, the chunk label printed with it (0 when it
\* prints none), the bytes whose transcript it carries and whether that
\* transcript is whitespace only.
Rec(kind, n, of, blank) == [kind |-> kind, n |-> n, of |-> of, blank |-> blank]

Line(kind) == Rec(kind, 0, EmptyBuffer, FALSE)

\* One call of model.stt: where it was made, its argument, what it did, and
\* how many 'data' events had been delivered when it was made.
Call(kind, input, out, nData) ==
    [kind |-> kind, input |-> input, out |-> out, nData |-> nData]

Pending == [state |-> "pending", kind |-> "none", of |-> EmptyBuffer, blank |-> FALSE]

Fulfilled(kind, of, blank) ==
    [state |-> "fulfilled", kind |-> kind, of |-> of, blank |-> blank]

Rejected(err) ==
    [state |-> "rejected", kind |-> err, of |-> EmptyBuffer, blank |-> FALSE]

\* A number of JavaScript, as far as the scorer can produce one: a finite
\* quotient num / den of integers, NaN, Infinity or -Infinity.
Number(kind, num, den) == [kind |-> kind, num |-> num, den |-> den]

\* No call was made yet.
NoResult == Number("none", 0, 1)

---------------------------------------------------------------------------
Init ==
    /\ variant \in Variants
    /\ hasReference \in BOOLEAN
    /\ (variant = "index" => hasReference = FALSE)
    /\ pc = "called"
    /\ source = "idle"
    /\ delivered = << >>
    /\ chunks = << >>
    /\ currentBuffer = EmptyBuffer
    /\ chunkCount = 0
    /\ sttCalls = << >>
    /\ sink = << >>
    /\ performanceLog = << >>
    /\ settled = Pending
    /\ reference = << >>
    /\ hypothesis = << >>
    /\ called = "none"
    /\ result = NoResult

---------------------------------------------------------------------------
(* transcribeAudio up to the point where the ffmpeg command is started *)

\* index.js: fs.existsSync fails, the function logs and returns undefined.
\* server1.js: fs.statSync throws inside the try block, the catch block
\* logs, writes the error and rethrows.
Start(exists) ==
    /\ pc = "called"
    /\ IF variant = "index"
       THEN IF ~exists
            THEN /\ sink' = Append(sink, Line("notFound"))
                 /\ settled' = Fulfilled("undefined", EmptyBuffer, FALSE)
                 /\ pc' = "returned"
                 /\ UNCHANGED source
            ELSE /\ sink' = Append(sink, Line("starting"))
                 /\ pc' = "streaming"
                 /\ source' = "open"
                 /\ UNCHANGED settled
       ELSE IF ~exists
            THEN /\ sink' = sink \o <<Line("starting"), Line("processingFile"),
                                      Line("consoleError"), Line("error")>>
                 /\ settled' = Rejected("FsError")
                 /\ pc' = "threw"
                 /\ UNCHANGED source
            ELSE /\ sink' = sink \o <<Line("starting"), Line("processingFile"),
                                      Line("fileSize")>>
                 /\ pc' = "streaming"
                 /\ source' = "open"
                 /\ UNCHANGED settled
    /\ UNCHANGED <<variant, hasReference, delivered, chunks, currentBuffer,
                   chunkCount, sttCalls, performanceLog>>
    /\ UNCHANGED scorerVars

---------------------------------------------------------------------------
(* The 'data' handler *)

\* Mutant: the loop stops one byte late (> for >=).
WhileConditionStrict(buf) == Len(buf) > CHUNK_SIZE

\* while (currentBuffer.length >= CHUNK_SIZE)
WhileCondition(buf) == Len(buf) >= CHUNK_SIZE

\* Mutant: the unit is taken from the tail of the buffer (slice(-CHUNK_SIZE)).
ChunkFromTail(buf) == SubSeq(buf, Len(buf) - CHUNK_SIZE + 1, Len(buf))

\* const chunkToProcess = currentBuffer.slice(0, CHUNK_SIZE)
ChunkToProcess(buf) == SliceHead(buf, CHUNK_SIZE)

\* Mutant: the buffer is cut one byte too far (slice(CHUNK_SIZE + 1)).
RestDropsByte(buf) == SliceFrom(buf, CHUNK_SIZE + 1)

\* currentBuffer = currentBuffer.slice(CHUNK_SIZE)
RestOfBuffer(buf) == SliceFrom(buf, CHUNK_SIZE)

\* The engine's outcome for the i-th unit of one handler invocation.
OutcomeAt(rs, i) == IF i \in DOMAIN rs THEN rs[i] ELSE "text"

\* Mutant: model.stt(chunkToProcess) is called outside any try block.
UnitErrorEscapes == FALSE

\* try { model.stt(chunkToProcess) ... } catch (err) { ... }: an error of the
\* engine on a unit is caught inside the loop.
CatchesUnitError == TRUE

\* One iteration of the loop after the slicing: st is the handler's state,
\* unit the slice and r what the engine does with it.  index.js logs an
\* intermediate result when the transcript has words, server1.js writes a
\* numbered line and counts it; both log the error message when the engine
\* throws, and neither records a blank transcript.
ProcessUnit(st, unit, r) ==
    [buf    |-> st.buf,
     calls  |-> Append(st.calls, Call("unit", unit, r, Len(delivered) + 1)),
     count  |-> IF variant = "server1" /\ r = "text" THEN st.count + 1 ELSE st.count,
     sink   |-> CASE r = "throw" ->
                       IF CatchesUnitError THEN Append(st.sink, Line("chunkError"))
                       ELSE st.sink
                  [] r = "blank" -> st.sink
                  [] OTHER ->
                       IF variant = "index"
                       THEN Append(st.sink, Rec("intermediate", 0, unit, FALSE))
                       ELSE Append(st.sink, Rec("chunk", st.count + 1, unit, FALSE)),
     thrown |-> r = "throw" /\ ~CatchesUnitError]

\* The while loop of the handler, from iteration i on; an exception that
\* is not caught leaves it.
RECURSIVE ProcessUnits(_, _, _)
ProcessUnits(st, rs, i) ==
    IF ~st.thrown /\ WhileCondition(st.buf)
    THEN ProcessUnits(
             ProcessUnit([st EXCEPT !.buf = RestOfBuffer(st.buf)],
                         ChunkToProcess(st.buf), OutcomeAt(rs, i)),
             rs, i + 1)
    ELSE st

\* The bytes of the stream delivered so far.
Stream == ConcatAll(delivered)

\* The next len bytes of the stream.
NextChunk(len) == [i \in 1..len |-> Len(Stream) + i]

\* Mutant: the chunk replaces the buffer instead of being appended to it.
ReplaceWithChunk(buf, chunk) == chunk

\* currentBuffer = Buffer.concat([currentBuffer, chunk])
AppendChunk(buf, chunk) == BufferConcat(buf, chunk)

\* .on("data", (chunk) => ...): the chunk is appended to currentBuffer, every
\* full unit is sliced off and recognised, and the chunk is pushed on chunks
\* (server1.js pushes first, index.js last; nothing in between can throw
\* out of the handler).
OnData(len, rs) ==
    /\ pc = "streaming"
    /\ LET chunk == NextChunk(len)
           st == ProcessUnits([buf   |-> AppendChunk(currentBuffer, chunk),
                               calls |-> sttCalls,
                               count |-> chunkCount,
                               sink  |-> sink,
                               thrown |-> FALSE], rs, 1)
       IN /\ delivered' = Append(delivered, chunk)
          /\ chunks' = IF variant = "index" /\ st.thrown THEN chunks
                       ELSE Append(chunks, chunk)
          /\ pc' = IF st.thrown THEN "uncaught" ELSE pc
          /\ currentBuffer' = st.buf
          /\ sttCalls' = st.calls
          /\ chunkCount' = st.count
          /\ sink' = st.sink
    /\ UNCHANGED <<variant, hasReference, source, performanceLog, settled>>
    /\ UNCHANGED scorerVars

---------------------------------------------------------------------------
(* The 'end' and 'error' handlers *)

\* if (currentBuffer.length > 0)
HasRemainder(buf) == Len(buf) > 0

\* What the 'end' handler writes for the remainder's transcript: index.js
\* logs it whatever it is, server1.js writes and counts it only when it has
\* words.
FinalChunkLines(buf, r) ==
    IF variant = "index" \/ r = "text"
    THEN <<Rec("finalChunk", 0, buf, r = "blank")>>
    ELSE << >>

\* .on("end", () => ...): the remainder, when there is one, is passed to
\* model.stt outside any try block.  When the engine throws, the exception
\* leaves the listener before resolve() is reached: it is an uncaught
\* exception of the process, and the awaited promise is never settled.
\* Without a remainder the engine is not called (r is then unused and fixed).
OnEnd(r) ==
    /\ pc = "streaming"
    /\ source' = "ended"
    /\ IF HasRemainder(currentBuffer)
       THEN /\ sttCalls' = Append(sttCalls,
                                  Call("remainder", currentBuffer, r, Len(delivered)))
            /\ IF r = "throw"
               THEN /\ pc' = "uncaught"
                    /\ UNCHANGED <<sink, chunkCount>>
               ELSE /\ sink' = sink \o FinalChunkLines(currentBuffer, r)
                    /\ chunkCount' = IF variant = "server1" /\ r = "text"
                                     THEN chunkCount + 1 ELSE chunkCount
                    /\ pc' = "resolved"
       ELSE /\ r = "text"
            /\ pc' = "resolved"
            /\ UNCHANGED <<sttCalls, sink, chunkCount>>
    /\ UNCHANGED <<variant, hasReference, delivered, chunks, currentBuffer,
                   performanceLog, settled>>
    /\ UNCHANGED scorerVars

\* Mutant: the 'error' handler resolves the awaited promise.
ErrorResolves == "resolved"

\* .on("error", reject): what the 'error' handler does to the awaited promise.
ErrorSettlement == "rejected"

\* Mutant: the catch block swallows the error and the function returns.
Swallow(err) == Fulfilled("undefined", EmptyBuffer, FALSE)

\* throw error, last statement of the catch block: transcribeAudio rejects
\* with the error it caught.
Rethrow(err) == Rejected(err)

\* .on("error", ...): index.js rejects the awaited promise; server1.js
\* first logs the error and writes it to the transcription file.
OnError ==
    /\ pc = "streaming"
    /\ source' = "failed"
    /\ sink' = IF variant = "server1"
               THEN sink \o <<Line("consoleError"), Line("ffmpegError")>>
               ELSE sink
    /\ pc' = ErrorSettlement
    /\ UNCHANGED <<variant, hasReference, delivered, chunks, currentBuffer,
                   chunkCount, sttCalls, performanceLog, settled>>
    /\ UNCHANGED scorerVars

---------------------------------------------------------------------------
(* After the await *)

\* Mutant: the promise is not awaited, the code after it runs at once.
NotAwaited == pc \in {"streaming", "resolved"}

\* await new Promise(...): the code after it runs once resolve() was called.
AwaitResolved == pc = "resolved"

\* await new Promise(...): the catch block runs once reject() was called.
AwaitRejected == pc = "rejected"

\* Mutant: the final pass is given the accumulation buffer.
CompleteFromCurrentBuffer == currentBuffer

\* const completeBuffer = Buffer.concat(chunks)
CompleteBuffer == ConcatAll(chunks)

\* catch (error) { ... throw error }: index.js logs the error; server1.js
\* logs it, writes it to the transcription file and ends both files.
CatchLines ==
    IF variant = "index" THEN <<Line("consoleError")>>
    ELSE <<Line("consoleError"), Line("error")>>

\* if (referenceText) { ... }: the accuracy lines of the transcription file
\* (one score record).
ScoreLines(r) ==
    IF hasReference THEN <<Rec("score", 0, CompleteBuffer, r = "blank")>> ELSE << >>

\* Mutant: the accuracy lines are written before the transcript.
ScoreFirst(r) ==
    ScoreLines(r) \o <<Line("completeHeader"),
                       Rec("final", 0, CompleteBuffer, r = "blank"),
                       Line("footer")>>

\* server1.js: what a successful final pass writes to the transcription
\* file before the closing line: the header, the transcript and the footer,
\* then the accuracy lines.
TranscriptLines(r) ==
    <<Line("completeHeader"), Rec("final", 0, CompleteBuffer, r = "blank"),
      Line("footer")>> \o ScoreLines(r)

\* if (referenceText) { ... }: the lines of the performance log.
PerformanceLines ==
    IF hasReference
    THEN <<Rec("totalChunks", chunkCount, EmptyBuffer, FALSE),
           Line("totalTime"), Line("wordAccuracy")>>
    ELSE << >>

\* The full-buffer pass.  index.js calls the engine, then logs the header
\* and the transcript and returns it.  server1.js writes the header, calls
\* the engine, writes the transcript, the score and the metrics, and writes
\* the closing line whose callback it then awaits.  When the engine throws,
\* the catch block runs and transcribeAudio rejects with the engine's error.
FinalPass(r) ==
    /\ AwaitResolved
    /\ sttCalls' = Append(sttCalls, Call("final", CompleteBuffer, r, Len(delivered)))
    /\ IF variant = "index"
       THEN IF r = "throw"
            THEN /\ sink' = sink \o CatchLines
                 /\ settled' = Rethrow("EngineFinalError")
                 /\ pc' = "threw"
            ELSE /\ sink' = sink \o <<Line("completeHeader"),
                                      Rec("final", 0, CompleteBuffer, r = "blank")>>
                 /\ settled' = Fulfilled("transcript", CompleteBuffer, r = "blank")
                 /\ pc' = "returned"
       ELSE IF r = "throw"
            THEN /\ sink' = sink \o <<Line("completeHeader")>> \o CatchLines
                 /\ settled' = Rethrow("EngineFinalError")
                 /\ pc' = "threw"
            ELSE /\ sink' = sink \o TranscriptLines(r) \o <<Line("completed")>>
                 /\ pc' = "closing"
                 /\ UNCHANGED settled
    /\ performanceLog' = IF variant = "server1" /\ r # "throw"
                         THEN performanceLog \o PerformanceLines
                         ELSE performanceLog
    /\ UNCHANGED <<variant, hasReference, source, delivered, chunks,
                   currentBuffer, chunkCount>>
    /\ UNCHANGED scorerVars

\* server1.js: the callback of the closing write ends both files and
\* resolves the second awaited promise; transcribeAudio returns finalResult.
OnWriteDone ==
    /\ pc = "closing"
    /\ LET final == sttCalls[Len(sttCalls)]
       IN settled' = Fulfilled("transcript", final.input, final.out = "blank")
    /\ pc' = "returned"
    /\ UNCHANGED <<variant, hasReference, source, delivered, chunks,
                   currentBuffer, chunkCount, sttCalls, sink, performanceLog>>
    /\ UNCHANGED scorerVars

\* The catch block after the Source's error rejected the awaited promise.
AfterReject ==
    /\ AwaitRejected
    /\ sink' = sink \o CatchLines
    /\ settled' = Rethrow("SourceError")
    /\ pc' = "threw"
    /\ UNCHANGED <<variant, hasReference, source, delivered, chunks,
                   currentBuffer, chunkCount, sttCalls, performanceLog>>
    /\ UNCHANGED scorerVars

---------------------------------------------------------------------------
\* The units one 'data' event can complete.
UnitsIn(len) == (Len(currentBuffer) + len) \div CHUNK_SIZE

Next ==
    \/ \E exists \in BOOLEAN : Start(exists)
    \/ \E len \in 1..(MaxBytes - Len(Stream)) :
           \E rs \in [1..UnitsIn(len) -> Outcomes] : OnData(len, rs)
    \/ \E r \in Outcomes : OnEnd(r)
    \/ OnError
    \/ \E r \in Outcomes : FinalPass(r)
    \/ OnWriteDone
    \/ AfterReject

Spec == Init /\ [][Next]_vars

---------------------------------------------------------------------------
(* The scorer of server1.js: calculateWER and calculateAccuracy *)

\* A text is a sequence of characters.  The characters of the bounded
\* texts: a lower-case and an upper-case form of one letter, a second
\* letter, the space and the tab.
Alphabet == {"a", "A", "b", " ", "\t"}

\* The texts of the examples of the design.
TheQuickBrownFox ==
    <<"t", "h", "e", " ", "q", "u", "i", "c", "k", " ",
      "b", "r", "o", "w", "n", " ", "f", "o", "x">>

TheQuickFox ==
    <<"t", "h", "e", " ", "q", "u", "i", "c", "k", " ", "f", "o", "x">>

ABC == <<"a", " ", "b", " ", "c">>

XYZ == <<"x", " ", "y", " ", "z">>

ExampleTexts == {TheQuickBrownFox, TheQuickFox, ABC, XYZ}

TextsUpTo(n) == UNION {[1..k -> Alphabet] : k \in 0..n}

ReferenceTexts == TextsUpTo(MaxReferenceLen) \cup ExampleTexts

HypothesisTexts == TextsUpTo(MaxHypothesisLen) \cup ExampleTexts

\* String.prototype.toLowerCase, character by character.
LowerCaseOf(ch) == IF ch = "A" THEN "a" ELSE ch

toLowerCase(text) == [i \in DOMAIN text |-> LowerCaseOf(text[i])]

\* String.prototype.split(separator) for a one-character separator: the
\* text is cut at every occurrence of the separator, so two adjacent
\* separators, a leading and a trailing one each give an empty token, and
\* the empty text gives one empty token.
RECURSIVE SplitFrom(_, _, _, _)
SplitFrom(text, separator, token, tokens) ==
    IF text = << >> THEN Append(tokens, token)
    ELSE IF Head(text) = separator
         THEN SplitFrom(Tail(text), separator, << >>, Append(tokens, token))
         ELSE SplitFrom(Tail(text), separator, Append(token, Head(text)), tokens)

split(text, separator) == SplitFrom(text, separator, << >>, << >>)

\* reference.toLowerCase().split(" ")
Tokens(text) == split(toLowerCase(text), " ")

\* Math.min of three numbers.
MathMin(a, b, c) ==
    IF a <= b /\ a <= c THEN a ELSE IF b <= c THEN b ELSE c

\* Mutant: a substitution costs nothing (dp[i - 1][j - 1] without + 1).
CellFreeSubstitution(same, diag, left, up) ==
    IF same THEN diag ELSE MathMin(diag, left + 1, up + 1)

\* Mutant: the deletion term is missing from Math.min.
CellNoDeletion(same, diag, left, up) ==
    IF same THEN diag ELSE MathMin(diag + 1, left + 1, left + 1)

\* The body of the inner loop: dp[i][j] from the cells above-left (diag),
\* left (dp[i][j - 1]) and above (dp[i - 1][j]).
Cell(same, diag, left, up) ==
    IF same THEN diag
    ELSE MathMin(diag + 1,   \* substitution
                 left + 1,   \* insertion
                 up + 1)     \* deletion

\* The matrix dp as the loops fill it, and its last cell.
EditDistance(ref, hyp) ==
    LET dp[i \in 0..Len(ref), j \in 0..Len(hyp)] ==
            IF j = 0 THEN i
            ELSE IF i = 0 THEN j
            ELSE Cell(ref[i] = hyp[j], dp[i - 1, j - 1], dp[i, j - 1], dp[i - 1, j])
    IN dp[Len(ref), Len(hyp)]

\* The division of two integers as JavaScript numbers: 0 / 0 is NaN and
\* n / 0 is Infinity.
Divide(num, den) ==
    IF den # 0 THEN Number("finite", num, den)
    ELSE IF num = 0 THEN Number("NaN", 0, 0)
    ELSE Number("Infinity", num, 0)

\* function calculateWER(reference, hypothesis)
calculateWER(ref, hyp) ==
    Divide(EditDistance(Tokens(ref), Tokens(hyp)), Len(Tokens(ref)))

\* (1 - wer) * 100
OneMinusTimes100(wer) ==
    CASE wer.kind = "finite" -> Number("finite", 100 * (wer.den - wer.num), wer.den)
      [] wer.kind = "NaN" -> wer
      [] OTHER -> Number("-Infinity", 0 - wer.num, 0)

Abs(n) == IF n < 0 THEN 0 - n ELSE n

\* Mutant: the digits after the second are cut off.
Truncate(p, q) == p \div q

\* The nearest integer to p / q (q > 0), the larger one of two nearest.
Round(p, q) == (2 * p + q) \div (2 * q)

\* Number.prototype.toFixed(2): the decimal string with two digits after
\* the point, here its sign and its digits as a count of hundredths; the
\* magnitude is rounded to the nearest hundredth, a half upwards.  NaN and
\* the infinities give their names.
toFixed2(x) ==
    IF x.kind = "finite"
    THEN [kind |-> "decimal", negative |-> x.num < 0,
          hundredths |-> Round(100 * Abs(x.num), x.den)]
    ELSE [kind |-> x.kind, negative |-> x.kind = "-Infinity", hundredths |-> 0]

\* function calculateAccuracy(reference, hypothesis)
calculateAccuracy(ref, hyp) == toFixed2(OneMinusTimes100(calculateWER(ref, hyp)))

\* A call of calculateWER.
ScoreWER ==
    /\ called = "none"
    /\ called' = "calculateWER"
    /\ result' = calculateWER(reference, hypothesis)
    /\ UNCHANGED <<reference, hypothesis>>
    /\ UNCHANGED pipelineVars

\* A call of calculateAccuracy.
ScoreAccuracy ==
    /\ called = "none"
    /\ called' = "calculateAccuracy"
    /\ result' = calculateAccuracy(reference, hypothesis)
    /\ UNCHANGED <<reference, hypothesis>>
    /\ UNCHANGED pipelineVars

\* The scorer alone: any reference and any hypothesis of the bounded texts.
InitScorer ==
    /\ variant = "server1"
    /\ hasReference = TRUE
    /\ pc = "called"
    /\ source = "idle"
    /\ delivered = << >>
    /\ chunks = << >>
    /\ currentBuffer = EmptyBuffer
    /\ chunkCount = 0
    /\ sttCalls = << >>
    /\ sink = << >>
    /\ performanceLog = << >>
    /\ settled = Pending
    /\ reference \in ReferenceTexts
    /\ hypothesis \in HypothesisTexts
    /\ called = "none"
    /\ result = NoResult

NextScorer == ScoreWER \/ ScoreAccuracy

SpecScorer == InitScorer /\ [][NextScorer]_vars

---------------------------------------------------------------------------
(* Properties *)

IsUnit(c) == c.kind = "unit"

IsRemainder(c) == c.kind = "remainder"

IsFinal(c) == c.kind = "final"

IsRecognitionUnit(c) == IsUnit(c) \/ IsRemainder(c)

\* The calls of model.stt made from the 'data' handler, from the 'end'
\* handler, and both, in order.
UnitCalls == SelectSeq(sttCalls, IsUnit)

RemainderCalls == SelectSeq(sttCalls, IsRemainder)

FinalCalls == SelectSeq(sttCalls, IsFinal)

RecognitionUnits == SelectSeq(sttCalls, IsRecognitionUnit)

InputsOf(calls) == [i \in DOMAIN calls |-> calls[i].input]

Min(a, b) == IF a < b THEN a ELSE b

\* Some chunk of the Source ends inside a unit.
UnalignedDelivery ==
    \E n \in 1..Len(delivered) :
        Len(ConcatAll(SubSeq(delivered, 1, n))) % CHUNK_SIZE # 0

\* C1 (byte conservation): once the Source has emitted 'end', the buffers
\* passed to the engine as recognition units (the fixed-size units of the
\* 'data' handler and the remainder of the 'end' handler), concatenated in
\* the order of the calls, are exactly the bytes the Source delivered.
C1_ByteConservation ==
    source = "ended" => ConcatAll(InputsOf(RecognitionUnits)) = Stream

C1_Witness ==
    /\ source = "ended"
    /\ Len(delivered) >= 3
    /\ UnalignedDelivery
    /\ Len(UnitCalls) >= 2
    /\ Len(RemainderCalls) = 1

\* C2 (unit sizing): every unit passed to the engine by the 'data' handler
\* has exactly CHUNK_SIZE bytes; the unit passed by the 'end' handler has
\* more than 0 and fewer than CHUNK_SIZE bytes; and when the buffer is empty
\* at 'end' the engine is not called for a remainder.
C2_UnitSizing ==
    /\ \A i \in DOMAIN sttCalls :
           /\ IsUnit(sttCalls[i]) => Len(sttCalls[i].input) = CHUNK_SIZE
           /\ IsRemainder(sttCalls[i]) =>
                  /\ Len(sttCalls[i].input) > 0
                  /\ Len(sttCalls[i].input) < CHUNK_SIZE
    /\ (source = "ended" /\ currentBuffer = EmptyBuffer) => RemainderCalls = << >>

C2_Witness ==
    /\ source = "ended"
    /\ Len(UnitCalls) >= 1
    /\ Len(RemainderCalls) = 1
    /\ UnalignedDelivery

\* C3 (order preservation, chunking independence): the k-th recognition unit
\* passed to the engine is the k-th CHUNK_SIZE slice of the bytes delivered
\* (the remainder being the slice the end of the stream cuts short), and
\* after each 'data' event every complete slice has been passed; the units
\* are a function of the byte stream alone, not of the chunk boundaries.
C3_OrderPreservation ==
    /\ \A k \in DOMAIN RecognitionUnits :
           RecognitionUnits[k].input =
               SubSeq(Stream, (k - 1) * CHUNK_SIZE + 1,
                      Min(k * CHUNK_SIZE, Len(Stream)))
    /\ source \in {"open", "ended"} => Len(UnitCalls) = Len(Stream) \div CHUNK_SIZE

C3_Witness ==
    /\ Len(delivered) >= 2
    /\ Len(delivered[1]) % CHUNK_SIZE # 0
    /\ Len(delivered[1]) > CHUNK_SIZE
    /\ Len(UnitCalls) >= 2

\* C4 (final pass after completion): a full-buffer engine call is made only
\* after the Source emitted 'end'; it is the last engine call of the run
\* (every unit and the remainder come before it) and every 'data' event of
\* the run was handled before it.
C4_FinalAfterEnd ==
    \A i \in DOMAIN sttCalls :
        IsFinal(sttCalls[i]) =>
            /\ source = "ended"
            /\ i = Len(sttCalls)
            /\ sttCalls[i].nData = Len(delivered)

C4_Witness ==
    /\ Len(FinalCalls) = 1
    /\ Len(RemainderCalls) = 1
    /\ Len(UnitCalls) >= 1
    /\ Len(delivered) >= 2

\* C5 (final input): the chunks array holds every delivered chunk exactly
\* once, in delivery order, whatever the engine did with the units, and the
\* argument of the full-buffer engine call is their concatenation; this is
\* so for both values of CHUNK_SIZE.
C5_FinalInput ==
    /\ chunks = delivered
    /\ \A i \in DOMAIN sttCalls :
           IsFinal(sttCalls[i]) => sttCalls[i].input = Stream

C5_Witness ==
    /\ Len(FinalCalls) = 1
    /\ Len(delivered) >= 2
    /\ UnalignedDelivery
    /\ \E i \in DOMAIN sttCalls : IsUnit(sttCalls[i]) /\ sttCalls[i].out = "throw"

IsIncremental(l) == l.kind \in {"intermediate", "chunk", "chunkError"}

IsRecorded(c) == c.out # "blank"

Threw(c) == c.out = "throw"

\* The lines the 'data' handler has written, in order.
IncrementalLines == SelectSeq(sink, IsIncremental)

HasUnitError == \E i \in DOMAIN sttCalls : IsUnit(sttCalls[i]) /\ Threw(sttCalls[i])

RemainderThrew ==
    \E i \in DOMAIN sttCalls : IsRemainder(sttCalls[i]) /\ Threw(sttCalls[i])

FinalThrew == \E i \in DOMAIN sttCalls : IsFinal(sttCalls[i]) /\ Threw(sttCalls[i])

\* C6 (partial failure on a fixed-size unit): the lines written by the
\* 'data' handler follow the units in order, an error line standing where
\* the engine threw; an engine error on a unit stops neither the units after
\* it (all complete slices of the stream are submitted, in order) nor the
\* accumulation of the raw chunks; and it never ends the run: a run with a
\* failed unit stops only by a Source error, a failure of the final pass or
\* an error on the remainder, and otherwise returns the final transcript of
\* the whole stream.
C6_UnitErrorAbsorbed ==
    LET recorded == SelectSeq(UnitCalls, IsRecorded)
    IN /\ Len(IncrementalLines) = Len(recorded)
       /\ \A k \in DOMAIN recorded :
              IF Threw(recorded[k])
              THEN IncrementalLines[k].kind = "chunkError"
              ELSE /\ IncrementalLines[k].kind \in {"intermediate", "chunk"}
                   /\ IncrementalLines[k].of = recorded[k].input
       /\ source # "idle" => Len(UnitCalls) = Len(Stream) \div CHUNK_SIZE
       /\ \A k \in DOMAIN UnitCalls :
              UnitCalls[k].input =
                  SubSeq(Stream, (k - 1) * CHUNK_SIZE + 1, k * CHUNK_SIZE)
       /\ ConcatAll(chunks) = Stream
       /\ HasUnitError =>
              /\ pc = "uncaught" => RemainderThrew
              /\ pc = "threw" => (source = "failed" \/ FinalThrew)
              /\ pc = "returned" =>
                     /\ Len(FinalCalls) = 1
                     /\ settled = Fulfilled("transcript", Stream,
                                            FinalCalls[1].out = "blank")

\* The first unit fails; a unit of the same chunk and a unit of a later
\* chunk are recognised after it, and the run returns the final transcript.
C6_Witness ==
    /\ pc = "returned"
    /\ settled.kind = "transcript"
    /\ \E i, j, k \in DOMAIN sttCalls :
           /\ i < j /\ j < k
           /\ IsUnit(sttCalls[i]) /\ Threw(sttCalls[i])
           /\ IsUnit(sttCalls[j]) /\ sttCalls[j].out = "text"
           /\ IsUnit(sttCalls[k]) /\ sttCalls[k].out = "text"
           /\ sttCalls[j].nData = sttCalls[i].nData
           /\ sttCalls[k].nData > sttCalls[i].nData

IsErrorLine(l) == l.kind = "chunkError"

\* C7 (error on the flushed remainder): an engine error on the remainder is
\* recorded as a per-unit error line like any other, does not end the run,
\* and the run goes on to the full-buffer pass.
C7_RemainderErrorAbsorbed ==
    RemainderThrew =>
        /\ Len(SelectSeq(sink, IsErrorLine)) =
               Len(SelectSeq(RecognitionUnits, Threw))
        /\ pc \in {"resolved", "closing", "returned", "threw"}

\* C8 (failure of the final pass): when the engine throws on the full
\* buffer the run is aborted: transcribeAudio rejects with the engine's
\* error, no final transcript is written or returned, and server1.js writes
\* no score record and no metrics.
C8_FinalErrorAborts ==
    FinalThrew =>
        /\ pc = "threw"
        /\ settled = Rejected("EngineFinalError")
        /\ \A i \in DOMAIN sink : sink[i].kind \notin {"final", "score", "completed"}
        /\ performanceLog = << >>

C8_Witness ==
    /\ FinalThrew
    /\ variant = "server1"
    /\ hasReference
    /\ Len(IncrementalLines) >= 1

\* Every line written stays written.
SinkKept == Len(sink') >= Len(sink) /\ SubSeq(sink', 1, Len(sink)) = sink

\* C9 (Source error): once the Source has emitted 'error' the awaited
\* promise is rejected, the only continuation is the catch block, after
\* which transcribeAudio is rejected with the Source's error; the
\* full-buffer engine call is never made; and in every step the lines
\* already written stay as they were.
C9_SourceErrorAborts ==
    /\ [](source = "failed" =>
              /\ FinalCalls = << >>
              /\ pc \in {"rejected", "threw"}
              /\ pc = "rejected" => settled = Pending
              /\ pc = "threw" => settled = Rejected("SourceError"))
    /\ [][SinkKept]_vars

C9_Witness ==
    /\ source = "failed"
    /\ pc = "threw"
    /\ settled = Rejected("SourceError")
    /\ Len(IncrementalLines) >= 2

\* The run can take no further step.
RunStopped == pc \in {"returned", "threw", "uncaught"}

\* C10 (run termination): a run whose Source emitted 'end' or 'error' and
\* that has stopped has settled in one of three ways: fulfilled with the
\* final transcript, rejected with the Source's error, or rejected with the
\* engine's error on the full buffer; no engine error on a unit or on the
\* remainder leaves it unsettled.
C10_ThreeOutcomes ==
    (source \in {"ended", "failed"} /\ RunStopped) =>
        \/ settled.state = "fulfilled" /\ settled.kind = "transcript"
        \/ settled = Rejected("SourceError")
        \/ settled = Rejected("EngineFinalError")

---------------------------------------------------------------------------
(* Properties of the scorer *)

Smallest(a, b, c) == Min(Min(a, b), c)

\* The unit-cost Levenshtein distance of two word sequences: the least
\* number of substitutions, insertions and deletions that turn a into b,
\* every alternative being tried on the first words.
RECURSIVE Levenshtein(_, _)
Levenshtein(a, b) ==
    IF a = << >> THEN Len(b)
    ELSE IF b = << >> THEN Len(a)
    ELSE Smallest(Levenshtein(Tail(a), Tail(b)) + (IF Head(a) = Head(b) THEN 0 ELSE 1),
                  Levenshtein(Tail(a), b) + 1,
                  Levenshtein(a, Tail(b)) + 1)

\* The number x is the quotient p / q.
IsQuotient(x, p, q) == x.kind = "finite" /\ x.num * q = p * x.den

\* C11 (WER correctness): calculateWER returns the unit-cost Levenshtein
\* distance of the two token sequences divided by the number of reference
\* tokens; for ("the quick brown fox", "the quick brown fox") that is 0, for
\* ("the quick brown fox", "the quick fox") 1/4, for ("a b c", "x y z") 1 and
\* for ("a", "a b c") 2.
C11_WERCorrect ==
    called = "calculateWER" =>
        /\ result = Number("finite",
                           Levenshtein(Tokens(reference), Tokens(hypothesis)),
                           Len(Tokens(reference)))
        /\ (reference = TheQuickBrownFox /\ hypothesis = TheQuickBrownFox)
               => IsQuotient(result, 0, 1)
        /\ (reference = TheQuickBrownFox /\ hypothesis = TheQuickFox)
               => IsQuotient(result, 1, 4)
        /\ (reference = ABC /\ hypothesis = XYZ) => IsQuotient(result, 1, 1)
        /\ (reference = <<"a">> /\ hypothesis = ABC) => IsQuotient(result, 2, 1)

C11_Witness ==
    /\ called = "calculateWER"
    /\ reference = TheQuickBrownFox
    /\ hypothesis = TheQuickFox
    /\ result = Number("finite", 1, 4)

Whitespace == {" ", "\t"}

\* The words of a text: its maximal runs of characters that are not
\* whitespace, case-folded.
RECURSIVE WordsFrom(_, _, _)
WordsFrom(text, word, words) ==
    LET closed == IF word = << >> THEN words ELSE Append(words, word)
    IN IF text = << >> THEN closed
       ELSE IF Head(text) \in Whitespace
            THEN WordsFrom(Tail(text), << >>, closed)
            ELSE WordsFrom(Tail(text), Append(word, LowerCaseOf(Head(text))), words)

Words(text) == WordsFrom(text, << >>, << >>)

\* The words joined by single spaces.
RECURSIVE Join(_)
Join(words) ==
    IF words = << >> THEN << >>
    ELSE IF Len(words) = 1 THEN Head(words)
    ELSE Head(words) \o <<" ">> \o Join(Tail(words))

\* C12 (domain failure): a call of the scorer with a reference of zero
\* words (empty or whitespace only) fails with an error, whatever the
\* hypothesis; it returns no number.
C12_DomainFailure ==
    (called # "none" /\ Words(reference) = << >>) => result.kind = "error"

\* C13 (whitespace tokenization): the tokens calculateWER compares are the
\* words of the texts (split on whitespace, so never an empty token), and
\* the WER is the WER of the two word sequences: texts with the same words
\* and different whitespace score the same.
C13_WhitespaceTokenization ==
    called = "calculateWER" =>
        /\ Tokens(reference) = Words(reference)
        /\ Tokens(hypothesis) = Words(hypothesis)
        /\ \A i \in DOMAIN Tokens(reference) : Tokens(reference)[i] # << >>
        /\ \A i \in DOMAIN Tokens(hypothesis) : Tokens(hypothesis)[i] # << >>
        /\ result = calculateWER(Join(Words(reference)), Join(Words(hypothesis)))

\* The value of a decimal string, in hundredths.
Hundredths(x) == IF x.negative THEN 0 - x.hundredths ELSE x.hundredths

\* C14 as claimed (accuracy range): calculateAccuracy is the number
\* (1 - WER) * 100, never greater than 100, equal to 100 exactly when the
\* case-folded token sequences are equal and negative exactly when the edit
\* distance exceeds the number of reference tokens; ("a", "a b c") gives -100.
C14_AccuracyExact ==
    called = "calculateAccuracy" =>
        LET n == Len(Tokens(reference))
            d == EditDistance(Tokens(reference), Tokens(hypothesis))
        IN /\ result.kind = "decimal"
           /\ Hundredths(result) * n = 10000 * (n - d)
           /\ Hundredths(result) <= 10000
           /\ Hundredths(result) = 10000 <=> Tokens(reference) = Tokens(hypothesis)
           /\ Hundredths(result) < 0 <=> d > n
           /\ (reference = <<"a">> /\ hypothesis = ABC) => Hundredths(result) = -10000

\* C14 as amended: calculateAccuracy is the decimal string of
\* (1 - WER) * 100 rounded to two decimals (within 0.005 of it), never
\* greater than 100.00; it is 100.00 when the case-folded token sequences
\* are equal and negative only when the edit distance exceeds the number of
\* reference tokens, the converses holding for references of fewer than
\* 20000 tokens; ("a", "a b c") gives -100.00.
C14_AccuracyRounded ==
    called = "calculateAccuracy" =>
        LET n == Len(Tokens(reference))
            d == EditDistance(Tokens(reference), Tokens(hypothesis))
        IN /\ result.kind = "decimal"
           /\ 2 * Abs(Hundredths(result) * n - 10000 * (n - d)) <= n
           /\ Hundredths(result) <= 10000
           /\ Tokens(reference) = Tokens(hypothesis) => Hundredths(result) = 10000
           /\ Hundredths(result) < 0 => d > n
           /\ n < 20000 =>
                  /\ Hundredths(result) = 10000 => Tokens(reference) = Tokens(hypothesis)
                  /\ d > n => Hundredths(result) < 0
           /\ (reference = <<"a">> /\ hypothesis = ABC) => Hundredths(result) = -10000

\* One of three reference words is missing: 66.67.
C14_Witness ==
    /\ called = "calculateAccuracy"
    /\ reference = ABC
    /\ hypothesis = <<"a", " ", "b">>
    /\ result = [kind |-> "decimal", negative |-> FALSE, hundredths |-> 6667]

---------------------------------------------------------------------------
(* Further properties of the pipeline *)

IsUnitRecord(l) == l.kind \in {"intermediate", "chunk", "chunkError", "finalChunk"}

CarriesTranscript(l) == l.kind \in {"intermediate", "chunk", "finalChunk"}

IsFinalRecord(l) == l.kind = "final"

IsScoreRecord(l) == l.kind = "score"

\* The lines written for recognition units, in order.
UnitRecords == SelectSeq(sink, IsUnitRecord)

\* C15 (record completeness): when the incremental pass is over, every
\* recognition unit passed to the engine has left exactly one record (a
\* transcript, an entry for a whitespace-only transcript, or an error
\* line), so there are as many records as units, and server1.js reports
\* that number as its chunk count.
C15_RecordComplete ==
    source = "ended" =>
        /\ Len(UnitRecords) = Len(RecognitionUnits)
        /\ variant = "server1" => chunkCount = Len(RecognitionUnits)

\* C16 (report ordering): the records of the units come first, in unit
\* order (server1.js numbers its chunk lines 1, 2, ...); no unit record
\* follows the final transcript or the score; there is at most one final
\* transcript and at most one score, the score only after the final
\* transcript; and a run that returns the transcript has written it once.
C16_ReportOrdering ==
    /\ Len(SelectSeq(sink, IsFinalRecord)) <= 1
    /\ Len(SelectSeq(sink, IsScoreRecord)) <= 1
    /\ \A i, j \in DOMAIN sink :
           i < j =>
               /\ ~(IsUnitRecord(sink[j]) /\ (IsFinalRecord(sink[i]) \/ IsScoreRecord(sink[i])))
               /\ ~(IsScoreRecord(sink[i]) /\ IsFinalRecord(sink[j]))
               /\ (CarriesTranscript(sink[i]) /\ CarriesTranscript(sink[j]))
                      => sink[i].of[1] < sink[j].of[1]
    /\ \A j \in DOMAIN sink :
           IsScoreRecord(sink[j]) => \E i \in 1..(j - 1) : IsFinalRecord(sink[i])
    /\ LET numbered == SelectSeq(sink, LAMBDA l : l.kind = "chunk")
       IN \A k \in DOMAIN numbered : numbered[k].n = k
    /\ (settled.state = "fulfilled" /\ settled.kind = "transcript")
           => Len(SelectSeq(sink, IsFinalRecord)) = 1

C16_Witness ==
    /\ variant = "server1"
    /\ pc = "returned"
    /\ Len(SelectSeq(sink, IsScoreRecord)) = 1
    /\ Len(SelectSeq(sink, IsFinalRecord)) = 1
    /\ Len(SelectSeq(sink, LAMBDA l : l.kind = "chunk")) >= 1
    /\ Len(SelectSeq(sink, LAMBDA l : l.kind = "finalChunk")) = 1
    /\ HasUnitError

\* C17 (accumulation buffer): between any two events of the Source the
\* buffer holds fewer than CHUNK_SIZE bytes, as many as the bytes delivered
\* modulo CHUNK_SIZE, and they are the last bytes delivered; engine errors
\* on units do not change that.
C17_BufferInvariant ==
    source # "idle" =>
        /\ Len(currentBuffer) < CHUNK_SIZE
        /\ Len(currentBuffer) = Len(Stream) % CHUNK_SIZE
        /\ currentBuffer =
               SubSeq(Stream, Len(Stream) - Len(currentBuffer) + 1, Len(Stream))

C17_Witness ==
    /\ source = "open"
    /\ Len(delivered) >= 3
    /\ HasUnitError
    /\ Len(UnitCalls) >= 2
    /\ Len(currentBuffer) > 0

\* C18 (flush discipline): the remainder is passed to the engine at most
\* once in a run and only after the Source emitted 'end', and once the
\* 'end' handler has run the accumulation buffer is empty.
C18_FlushDiscipline ==
    /\ Len(RemainderCalls) <= 1
    /\ RemainderCalls # << >> => source = "ended"
    /\ source = "ended" => currentBuffer = EmptyBuffer

\* C19 (one second per unit): in index.js every fixed-size unit passed to
\* the engine holds one second of audio, AudioFrequency samples.
C19_OneSecondUnits ==
    variant = "index" =>
        \A i \in DOMAIN sttCalls :
            IsUnit(sttCalls[i]) => SamplesIn(sttCalls[i].input) = AudioFrequency

---------------------------------------------------------------------------
\* C20 (symmetry of the edit distance): the WER of (reference, hypothesis)
\* times the number of reference tokens is the WER of (hypothesis,
\* reference) times the number of hypothesis tokens.
C20_Symmetric ==
    called = "calculateWER" =>
        LET back == calculateWER(hypothesis, reference)
        IN /\ result.kind = "finite"
           /\ back.kind = "finite"
           /\ result.num * Len(Tokens(reference)) * back.den =
                  back.num * Len(Tokens(hypothesis)) * result.den

C20_Witness ==
    /\ called = "calculateWER"
    /\ reference = <<"a", " ", "b">>
    /\ hypothesis = <<"a">>
    /\ result = Number("finite", 1, 2)

=============================================================================
